---------------------------- MODULE Spec2Model ----------------------------
(***************************************************************************)
(* mini-tokio (src/mi-tokio.rs): a channel based executor, the Task        *)
(* harness, the Task waker and the Delay leaf future with its timer        *)
(* thread.                                                                 *)
(*                                                                         *)
(* Threads of the model: the main thread (main, then MiniTokio::run and    *)
(* every Task::poll it makes), one timer thread per Delay, and the clock.  *)
(* Time is counted in units of 100 ms.  The clock may advance between any  *)
(* two steps of any thread: the code makes no assumption on how long a     *)
(* step takes.                                                             *)
(***************************************************************************)
EXTENDS Naturals, Sequences, FiniteSets

\* ----------------------------------------------------------------- bounds
\* The clock runs freely up to MaxTime; beyond it, it only advances while a
\* timer thread still sleeps towards its deadline.
MaxTime == 2
\* Capacity of the task table and of the delay table of the model.
MaxTasks == 3
MaxDelays == 3

\* ------------------------------------------------------ program constants
\* delay(Duration::from_millis(100)) and delay(Duration::from_millis(200)).
D100 == 1
D200 == 2

Range(f) == {f[i] : i \in DOMAIN f}

TaskIds == 1..MaxTasks
DelayIds == 1..MaxDelays

\* --------------------------------------------------------------- programs
\* An async block is a straight-line sequence of statements; the future made
\* from it resumes at the statement it was suspended on.
Stmt(op, prog, dur, text) == [op |-> op, prog |-> prog, dur |-> dur, text |-> text]
SpawnStmt(p) == Stmt("spawn", p, 0, "")
DelayStmt(d) == Stmt("delay", "", d, "")
PrintStmt(s) == Stmt("print", "", 0, s)
ExitStmt == Stmt("exit", "", 0, "")

\* The async blocks of main, and the blocks of the other scenarios.
Body(p) ==
  CASE p = "root"  -> <<SpawnStmt("world"), SpawnStmt("hello"), DelayStmt(D200), ExitStmt>>
    [] p = "world" -> <<DelayStmt(D100), PrintStmt("world")>>
    [] p = "hello" -> <<PrintStmt("hello")>>
    [] p = "now"   -> <<DelayStmt(0), PrintStmt("now")>>
    [] p = "twice" -> <<DelayStmt(0), DelayStmt(D100), PrintStmt("twice")>>
    [] p = "a"     -> <<DelayStmt(D100), PrintStmt("a")>>
    [] p = "b"     -> <<DelayStmt(D100), PrintStmt("b")>>
    [] OTHER       -> <<>>

\* What the main thread does between MiniTokio::new() and mini_tokio.run():
\* method spawns ("mspawn") and calls of the free function spawn ("gspawn").
MainOp(op, prog) == [op |-> op, prog |-> prog]
ScriptA == <<MainOp("mspawn", "root")>>
ScriptB == <<MainOp("mspawn", "now")>>
ScriptC == <<MainOp("mspawn", "a"), MainOp("mspawn", "b")>>
ScriptD == <<MainOp("mspawn", "twice"), MainOp("mspawn", "hello")>>
ScriptG == <<MainOp("mspawn", "hello"), MainOp("gspawn", "hello")>>
Scripts == {ScriptA, ScriptB, ScriptC, ScriptD, ScriptG}

VARIABLES
  script,    \* the main thread's calls before run()
  mpc,       \* main thread: 0 before new(), i at script[i], then run()
  current,   \* the CURRENT thread local: "None" or "sender"
  queue,     \* the channel: Arc<Task> references sent and not yet received
  nTasks,    \* number of Tasks created
  tasks,     \* the Tasks: their future's program, position and state
  nDelays,   \* number of Delay futures created
  delays,    \* the Delays, each with its waker slot and its timer thread
  cur,       \* the Task the run loop is polling, 0 when it is at recv()
  rpc,       \* where the run loop is
  now,       \* Instant::now()
  out,       \* what println! has printed
  exited,    \* std::process::exit was called
  fault,     \* the panic that ended the main thread, "none" if none
  slow,      \* history: the clock advanced while some thread could step
  sent,      \* history: every Task reference sent to the channel, in order
  recvd,     \* history: every Task reference received, in order
  flock,     \* the Tasks whose future Mutex is locked
  shutdown   \* after a panic of the main thread: "no", then "unwound" (the
             \* locals of main are dropped), then "ended" (the process is gone)

vars == <<script, mpc, current, queue, nTasks, tasks, nDelays, delays, cur,
          rpc, now, out, exited, fault, slow, sent, recvd, flock, shutdown>>

\* A Task (lines 210-219): its future is the program prog suspended at
\* statement pc, awaiting Delay dcur (0: none); done once it returned Ready.
\* The executor field is the one channel of the process.  History: nested
\* tells that the Task was spawned by a future the run loop was polling.
NoTask == [prog |-> "", pc |-> 0, dcur |-> 0, done |-> FALSE, nested |-> FALSE]
\* A Delay (lines 134-140) with the state of its timer thread: owner is the
\* Task whose future holds it, waker the Task the stored Waker refers to (0:
\* the Option is None), lock whether the timer thread holds the slot's Mutex,
\* tpc the timer thread's position.  History: fires counts the wakes of the
\* timer thread, firedTo the Task it woke, lastCx the Task of the context of
\* the latest poll, npolls the polls made, pending whether one returned
\* Pending, firstRes the result of the first poll, started the number of
\* timer threads spawned for it.
NoDelay == [owner |-> 0, when |-> 0, waker |-> 0, lock |-> FALSE,
            tpc |-> "none", fires |-> 0, firedTo |-> 0, lastCx |-> 0,
            npolls |-> 0, pending |-> FALSE, firstRes |-> "none",
            started |-> 0]

Init ==
  /\ script \in Scripts
  /\ mpc = 0
  /\ current = "None"
  /\ queue = <<>>
  /\ nTasks = 0
  /\ tasks = [t \in TaskIds |-> NoTask]
  /\ nDelays = 0
  /\ delays = [k \in DelayIds |-> NoDelay]
  /\ cur = 0
  /\ rpc = "recv"
  /\ now = 0
  /\ out = <<>>
  /\ exited = FALSE
  /\ fault = "none"
  /\ slow = FALSE
  /\ sent = <<>>
  /\ recvd = <<>>
  /\ flock = {}
  /\ shutdown = "no"

\* The main thread runs until process::exit or until it panics.
Alive == ~exited /\ fault = "none"

\* The timer threads run until the process is gone: process::exit ends it
\* at once; a panic of the main thread first unwinds main, which drops
\* mini_tokio and with it the Receiver, and the process ends after that.
ThreadsRun == ~exited /\ shutdown # "ended"

\* The Receiver (line 56) lives as long as main's mini_tokio (line 20).
ReceiverAlive == shutdown = "no"

\* ------------------------------------------------------------ the channel
\* A send that puts the reference at the head, and one that queues it twice.
SendFront(q, t) == <<t>> \o q
SendTwice(q, t) == Append(Append(q, t), t)

\* channel::Sender::send on the unbounded channel: appends at the tail; with
\* the Receiver dropped it returns Err and nothing is queued (the callers
\* ignore the result, lines 234 and 258).
Send(q, t) == IF ReceiverAlive THEN Append(q, t) ELSE q

\* A recv that takes the newest reference instead of the oldest.
RecvLifo(q) == [task |-> q[Len(q)], rest |-> SubSeq(q, 1, Len(q) - 1)]

\* channel::Receiver::recv on a channel that is not empty: the reference at
\* the head is taken out.
Recv(q) == [task |-> Head(q), rest |-> Tail(q)]

\* --------------------------------------------------------------- the Task
\* Task::spawn (lines 225-235): a new Task holding the future, bound to the
\* sender it was given, is sent to the channel.
NewTask(p) ==
  [prog |-> p, pc |-> 1, dcur |-> 0, done |-> FALSE, nested |-> (cur # 0)]

TaskSpawn(ts, p) == [ts EXCEPT ![nTasks + 1] = NewTask(p)]

\* A wake that sends nothing, and a wake that sends the Task twice.
wake_dropped(q, t) == q
wake_twice(q, t) == Send(Send(q, t), t)

\* ArcWake::wake_by_ref (lines 255-259): sends the Task to its executor.
wake_by_ref(q, t) == Send(q, t)

\* Waker::will_wake (line 154): both wakers refer to the same Task.
will_wake(stored, cx) == stored = cx

\* The future after its statement at pc has run: it is Ready once the last
\* statement of the block has run.
Stepped(tk) ==
  [tk EXCEPT !.pc = tk.pc + 1, !.done = (tk.pc + 1 > Len(Body(tk.prog)))]

CurStmt == Body(tasks[cur].prog)[tasks[cur].pc]

\* ------------------------------------------------------- the main thread
\* MiniTokio::new (lines 64-68): the channel is created, empty.
New ==
  /\ Alive
  /\ mpc = 0
  /\ mpc' = 1
  /\ queue' = <<>>
  /\ UNCHANGED <<script, current, nTasks, tasks, nDelays, delays, cur, rpc,
                 now, out, exited, fault, slow, sent, recvd, flock, shutdown>>

\* MiniTokio::spawn (lines 74-79), called by main (line 24).
MainSpawn ==
  /\ Alive
  /\ mpc \in 1..Len(script)
  /\ script[mpc].op = "mspawn"
  /\ nTasks < MaxTasks
  /\ tasks' = TaskSpawn(tasks, script[mpc].prog)
  /\ nTasks' = nTasks + 1
  /\ queue' = Send(queue, nTasks + 1)
  /\ sent' = Append(sent, nTasks + 1)
  /\ mpc' = mpc + 1
  /\ UNCHANGED <<script, current, nDelays, delays, cur, rpc, now, out,
                 exited, fault, slow, recvd, flock, shutdown>>

\* A spawn that does not notice the empty slot.
SpawnNeverPanics == FALSE

\* The free function spawn (lines 109-118): borrow.as_ref().unwrap() panics
\* when CURRENT holds None; otherwise Task::spawn with the sender in it.
SpawnPanics == current = "None"

\* spawn called by the main thread before run().
MainGlobalSpawn ==
  /\ Alive
  /\ mpc \in 1..Len(script)
  /\ script[mpc].op = "gspawn"
  /\ IF SpawnPanics
       THEN /\ fault' = "unwrap_none"
            /\ UNCHANGED <<tasks, nTasks, queue, sent, mpc>>
       ELSE /\ nTasks < MaxTasks
            /\ tasks' = TaskSpawn(tasks, script[mpc].prog)
            /\ nTasks' = nTasks + 1
            /\ queue' = Send(queue, nTasks + 1)
            /\ sent' = Append(sent, nTasks + 1)
            /\ mpc' = mpc + 1
            /\ UNCHANGED fault
  /\ UNCHANGED <<script, current, nDelays, delays, cur, rpc, now, out,
                 exited, slow, recvd, flock, shutdown>>

\* A run that leaves CURRENT as it was.
RunKeepsCurrent == current

\* MiniTokio::run, lines 93-95: CURRENT is set to a clone of the sender.
RunSetCurrent == "sender"

RunStart ==
  /\ Alive
  /\ mpc = Len(script) + 1
  /\ current' = RunSetCurrent
  /\ mpc' = mpc + 1
  /\ UNCHANGED <<script, queue, nTasks, tasks, nDelays, delays, cur, rpc,
                 now, out, exited, fault, slow, sent, recvd, flock, shutdown>>

InLoop == mpc = Len(script) + 2

\* run() has returned to main (line 43 is passed).
Returned == mpc = Len(script) + 3

\* The Tasks some reference keeps alive: the channel's entries, the Task
\* being polled, and the wakers held in the slot of a Delay whose timer
\* thread has not ended.
LiveTasks ==
  Range(queue) \cup (IF cur # 0 THEN {cur} ELSE {})
    \cup {delays[k].waker : k \in {j \in DelayIds :
                                     /\ delays[j].waker # 0
                                     /\ delays[j].tpc # "done"}}

\* The number of Senders of the channel: the executor's own (line 59, alive
\* while run borrows the executor), the clone in CURRENT (line 94) and the
\* clone in every live Task (line 231).
Senders ==
  1 + (IF current = "sender" THEN 1 ELSE 0) + Cardinality(LiveTasks)

\* A recv that fails as soon as the channel is empty (try_recv).
RecvFailsWhenEmpty == queue = <<>>

\* recv() returns Err, and the loop of line 99 ends, only when the channel
\* is empty and every Sender is dropped.
RecvFails == queue = <<>> /\ Senders = 0

\* MiniTokio::run, line 99: recv() blocks while the channel is empty and a
\* Sender lives.
RunRecv ==
  /\ Alive
  /\ InLoop
  /\ rpc = "recv"
  /\ queue # <<>> \/ RecvFails
  /\ IF queue = <<>>
       THEN /\ mpc' = mpc + 1
            /\ UNCHANGED <<cur, queue, recvd, rpc>>
       ELSE /\ cur' = Recv(queue).task
            /\ queue' = Recv(queue).rest
            /\ recvd' = Append(recvd, cur')
            /\ rpc' = "poll"
            /\ UNCHANGED mpc
  /\ UNCHANGED <<script, current, nTasks, tasks, nDelays, delays, now,
                 out, exited, fault, slow, sent, flock, shutdown>>

\* Task::poll (lines 239-250): the future's Mutex is taken with try_lock,
\* whose unwrap panics when the Mutex is held (line 246), and the future is
\* polled with a waker of this Task.  An async block polled again after it returned Ready panics
\* ("`async fn` resumed after completion"); otherwise it resumes at the
\* Delay it awaits, or at its first statement.
TaskPoll ==
  /\ Alive
  /\ rpc = "poll"
  /\ IF cur \in flock
       THEN /\ fault' = "try_lock"
            /\ UNCHANGED <<rpc, flock>>
       ELSE /\ flock' = flock \cup {cur}
            /\ IF tasks[cur].done
                 THEN /\ fault' = "resumed_after_completion"
                      /\ UNCHANGED rpc
                 ELSE /\ rpc' = IF tasks[cur].dcur # 0 THEN "dwaker" ELSE "exec"
                      /\ UNCHANGED fault
  /\ UNCHANGED <<script, mpc, current, queue, nTasks, tasks, nDelays, delays,
                 cur, now, out, exited, slow, sent, recvd, shutdown>>

\* A Task::poll that keeps the future locked when it returns, and one that
\* sends the Task back to the channel when it returns.
GuardLeak(l, t) == l
RequeueAfterPoll(q, t) == Append(q, t)

\* Task::poll returns (line 250): the guard of the future's Mutex is dropped.
GuardDrop(l, t) == l \ {t}

\* Task::poll returns (lines 249-250): the result of the poll is discarded
\* and nothing is sent.
AfterPoll(q, t) == q

\* The run loop after the statement of the polled future has run: the next
\* statement, or Task::poll returns (the future is Ready) and run() is back
\* at recv().
AfterStmt(tk) ==
  /\ rpc' = IF Stepped(tk).done THEN "recv" ELSE "exec"
  /\ cur' = IF Stepped(tk).done THEN 0 ELSE cur
  /\ flock' = IF Stepped(tk).done THEN GuardDrop(flock, cur) ELSE flock

\* spawn(async { .. }) inside a polled future (lines 26, 33).
ExecSpawn ==
  /\ Alive
  /\ rpc = "exec"
  /\ CurStmt.op = "spawn"
  /\ IF SpawnPanics
       THEN /\ fault' = "unwrap_none"
            /\ UNCHANGED <<tasks, nTasks, queue, sent, rpc, cur, flock>>
       ELSE /\ nTasks < MaxTasks
            /\ tasks' = [TaskSpawn(tasks, CurStmt.prog) EXCEPT ![cur] = Stepped(tasks[cur])]
            /\ nTasks' = nTasks + 1
            /\ queue' = IF Stepped(tasks[cur]).done
                          THEN AfterPoll(Send(queue, nTasks + 1), cur)
                          ELSE Send(queue, nTasks + 1)
            /\ sent' = Append(sent, nTasks + 1)
            /\ AfterStmt(tasks[cur])
            /\ UNCHANGED fault
  /\ UNCHANGED <<script, mpc, current, nDelays, delays, now, out, exited,
                 slow, recvd, shutdown>>

\* println!(..) inside a polled future (lines 29, 34).
ExecPrint ==
  /\ Alive
  /\ rpc = "exec"
  /\ CurStmt.op = "print"
  /\ out' = Append(out, CurStmt.text)
  /\ tasks' = [tasks EXCEPT ![cur] = Stepped(tasks[cur])]
  /\ queue' = IF Stepped(tasks[cur]).done THEN AfterPoll(queue, cur) ELSE queue
  /\ AfterStmt(tasks[cur])
  /\ UNCHANGED <<script, mpc, current, nTasks, nDelays, delays, now,
                 exited, fault, slow, sent, recvd, shutdown>>

\* std::process::exit(0) (line 39).
ExecExit ==
  /\ Alive
  /\ rpc = "exec"
  /\ CurStmt.op = "exit"
  /\ exited' = TRUE
  /\ UNCHANGED <<script, mpc, current, queue, nTasks, tasks, nDelays, delays,
                 cur, rpc, now, out, fault, slow, sent, recvd, flock,
                 shutdown>>

\* -------------------------------------------------------------- the Delay
\* delay(dur), lines 194-197: the Delay is created with when = now + dur
\* and an empty waker slot, then awaited.
DelayNew ==
  /\ Alive
  /\ rpc = "exec"
  /\ CurStmt.op = "delay"
  /\ nDelays < MaxDelays
  /\ nDelays' = nDelays + 1
  /\ delays' = [delays EXCEPT ![nDelays + 1] =
                  [NoDelay EXCEPT !.owner = cur, !.when = now + CurStmt.dur]]
  /\ tasks' = [tasks EXCEPT ![cur].dcur = nDelays + 1]
  /\ rpc' = "dwaker"
  /\ UNCHANGED <<script, mpc, current, queue, nTasks, cur, now, out, exited,
                 fault, slow, sent, recvd, flock, shutdown>>

\* A poll that keeps the waker it finds in the slot.
StoreWakerKeep(stored, cx) == stored

\* Delay::poll, lines 148-156: the slot holds a waker; under the slot's
\* lock it is replaced unless it wakes the Task of the context.
StoreWaker(stored, cx) == IF will_wake(stored, cx) THEN stored ELSE cx

\* Delay::poll, lines 157-174: first poll; the waker of the context is
\* stored and the timer thread is spawned.
FirstWaker(cx) == cx

\* A poll that never finds the waker it stored.
SlotNeverPresent(k) == FALSE

\* Delay::poll, line 148: `if let Some(waker) = &self.waker`.
SlotPresent(k) == delays[k].waker # 0

\* Delay::poll, lines 148-174.  The lock of line 149 is taken only when the
\* timer thread does not hold it.
DelayPollWaker ==
  /\ Alive
  /\ rpc = "dwaker"
  /\ LET k == tasks[cur].dcur IN
       IF SlotPresent(k)
         THEN /\ ~delays[k].lock
              /\ delays' = [delays EXCEPT
                              ![k].waker = StoreWaker(delays[k].waker, cur),
                              ![k].lastCx = cur]
         ELSE delays' = [delays EXCEPT
                           ![k].waker = FirstWaker(cur),
                           ![k].lastCx = cur,
                           ![k].tpc = "sleep",
                           ![k].started = delays[k].started + 1]
  /\ rpc' = "dcheck"
  /\ UNCHANGED <<script, mpc, current, queue, nTasks, tasks, nDelays, cur,
                 now, out, exited, fault, slow, sent, recvd, flock, shutdown>>

\* A check that misses the deadline instant itself, and one that never
\* looks at the clock.
DelayReadyStrict(n, when) == n > when
DelayReadyAlways(n, when) == TRUE

\* Delay::poll, line 179: Instant::now() >= self.when.
DelayReady(n, when) == n >= when

\* Delay::poll, lines 179-189.  Ready: the await of line 200 completes and
\* the future goes on with its next statement.  Pending: Task::poll returns
\* and run() is back at recv().
DelayPollCheck ==
  /\ Alive
  /\ rpc = "dcheck"
  /\ LET k == tasks[cur].dcur
         ready == DelayReady(now, delays[k].when)
         res == IF ready THEN "ready" ELSE "pending"
     IN
       /\ delays' = [delays EXCEPT
                       ![k].npolls = delays[k].npolls + 1,
                       ![k].pending = delays[k].pending \/ ~ready,
                       ![k].firstRes = IF delays[k].npolls = 0 THEN res
                                       ELSE delays[k].firstRes]
       /\ IF ready
            THEN /\ tasks' = [tasks EXCEPT
                               ![cur] = Stepped([tasks[cur] EXCEPT !.dcur = 0])]
                 /\ AfterStmt(tasks[cur])
            ELSE /\ rpc' = "recv"
                 /\ cur' = 0
                 /\ flock' = GuardDrop(flock, cur)
                 /\ UNCHANGED tasks
       /\ queue' = IF ~ready \/ Stepped(tasks[cur]).done
                     THEN AfterPoll(queue, cur)
                     ELSE queue
  /\ UNCHANGED <<script, mpc, current, nTasks, nDelays, now, out,
                 exited, fault, slow, sent, recvd, shutdown>>

\* ------------------------------------------------------- the timer thread
\* A timer thread that does not sleep.
TimerNoSleep(k) == TRUE

\* Lines 164-168: the thread sleeps until the deadline; thread::sleep
\* returns no earlier than asked, maybe later.
TimerElapsed(k) == now >= delays[k].when

\* Lines 164-171: after the sleep the thread takes the lock of the slot.
TimerLock(k) ==
  /\ ThreadsRun
  /\ delays[k].tpc = "sleep"
  /\ TimerElapsed(k)
  /\ ~delays[k].lock
  /\ delays' = [delays EXCEPT ![k].lock = TRUE, ![k].tpc = "wake"]
  /\ UNCHANGED <<script, mpc, current, queue, nTasks, tasks, nDelays, cur,
                 rpc, now, out, exited, fault, slow, sent, recvd,
                 flock, shutdown>>

\* Where the timer thread stands after line 172: at its end.
TimerAfterWake == "done"

\* A timer thread that ends without giving the slot's lock back.
TimerKeepsLock == TRUE

\* Line 173: the guard of the slot's Mutex is dropped as the closure ends;
\* the lock is no longer held.
TimerUnlock == FALSE

\* Line 172: waker.wake_by_ref() on the stored waker, then the guard is
\* dropped and the thread ends.
TimerWake(k) ==
  /\ ThreadsRun
  /\ delays[k].tpc = "wake"
  /\ queue' = wake_by_ref(queue, delays[k].waker)
  /\ LET new == SubSeq(queue', Len(queue) + 1, Len(queue')) IN
       /\ sent' = sent \o new
       /\ delays' = [delays EXCEPT
                       ![k].lock = TimerUnlock,
                       ![k].tpc = TimerAfterWake,
                       ![k].fires = delays[k].fires + Len(new),
                       ![k].firedTo = IF new = <<>> THEN 0 ELSE new[Len(new)]]
  /\ UNCHANGED <<script, mpc, current, nTasks, tasks, nDelays, cur, rpc, now,
                 out, exited, fault, slow, recvd, flock, shutdown>>

\* -------------------------------------------------------------- the clock
\* Some thread other than the clock can take a step.
Busy ==
  \/ mpc <= Len(script) + 1
  \/ rpc # "recv"
  \/ queue # <<>>
  \/ \E k \in DelayIds :
       \/ delays[k].tpc = "wake"
       \/ delays[k].tpc = "sleep" /\ now >= delays[k].when

\* Time passes (the host's monotonic clock).
Tick ==
  /\ Alive
  /\ \/ now < MaxTime
     \/ \E k \in DelayIds : delays[k].tpc = "sleep" /\ now < delays[k].when
  /\ now' = now + 1
  /\ slow' = (slow \/ Busy)
  /\ UNCHANGED <<script, mpc, current, queue, nTasks, tasks, nDelays, delays,
                 cur, rpc, out, exited, fault, sent, recvd, flock, shutdown>>

\* ------------------------------------------------- the end of the process
\* The panic unwinds main: mini_tokio (line 20) is dropped, and with it the
\* Receiver.  The timer threads still run.
Unwind ==
  /\ fault # "none"
  /\ shutdown = "no"
  /\ shutdown' = "unwound"
  /\ UNCHANGED <<script, mpc, current, queue, nTasks, tasks, nDelays, delays,
                 cur, rpc, now, out, exited, fault, slow, sent, recvd, flock>>

\* main has ended by the panic: the process ends, and its threads with it.
ProcessEnd ==
  /\ shutdown = "unwound"
  /\ shutdown' = "ended"
  /\ UNCHANGED <<script, mpc, current, queue, nTasks, tasks, nDelays, delays,
                 cur, rpc, now, out, exited, fault, slow, sent, recvd, flock>>

\* ------------------------------------------------------ the specification
MainThread ==
  \/ New
  \/ MainSpawn
  \/ MainGlobalSpawn
  \/ RunStart
  \/ Unwind
  \/ ProcessEnd

RunLoop ==
  \/ RunRecv
  \/ TaskPoll
  \/ ExecSpawn
  \/ ExecPrint
  \/ ExecExit
  \/ DelayNew
  \/ DelayPollWaker
  \/ DelayPollCheck

Timers ==
  \/ \E k \in DelayIds : TimerLock(k)
  \/ \E k \in DelayIds : TimerWake(k)

Next == MainThread \/ RunLoop \/ Timers \/ Tick

Spec == Init /\ [][Next]_vars

\* The threads are scheduled by the operating system: a thread that can step
\* does step, and the clock goes on.
FairSpec ==
  /\ Spec
  /\ WF_vars(MainThread)
  /\ WF_vars(RunLoop)
  /\ WF_vars(Timers)
  /\ WF_vars(Tick)

\* --------------------------------------------- a Delay polled by two Tasks
\* Delay::poll must serve a Delay whose future moved to another Task between
\* two polls (lines 151-153); the program itself never moves one.  Here the
\* run loop is started with two Tasks whose futures both stand at the await
\* of one Delay not polled yet; Polls lists the orders in which the Tasks
\* are queued at the start.
Polls == {<<1, 2>>, <<2, 1>>, <<1, 1, 2>>, <<1, 2, 2>>}

MoveInit ==
  /\ script = ScriptC
  /\ mpc = Len(script) + 2
  /\ current = "sender"
  /\ queue \in Polls
  /\ sent = queue
  /\ recvd = <<>>
  /\ cur = 0
  /\ nTasks = 2
  /\ tasks = [t \in TaskIds |->
               IF t = 1 THEN [NewTask("a") EXCEPT !.dcur = 1]
               ELSE IF t = 2 THEN [NewTask("b") EXCEPT !.dcur = 1]
               ELSE NoTask]
  /\ nDelays = 1
  /\ \E d \in {D100, D200} :
       delays = [k \in DelayIds |->
                  IF k = 1 THEN [NoDelay EXCEPT !.owner = 1, !.when = d]
                  ELSE NoDelay]
  /\ rpc = "recv"
  /\ now = 0
  /\ out = <<>>
  /\ exited = FALSE
  /\ fault = "none"
  /\ slow = FALSE
  /\ flock = {}
  /\ shutdown = "no"

MoveNext ==
  \/ RunRecv
  \/ TaskPoll
  \/ ExecPrint
  \/ DelayPollWaker
  \/ DelayPollCheck
  \/ \E k \in DelayIds : TimerLock(k)
  \/ \E k \in DelayIds : TimerWake(k)
  \/ Tick
  \/ Unwind
  \/ ProcessEnd

MoveSpec == MoveInit /\ [][MoveNext]_vars

\* ================================================================ claims
\* C1 (as claimed): once a Task's future has returned Ready, Task::poll is
\* never called on that Task again, even when a wake referring to it fires
\* after it completed.
C1_NeverPolledAfterReady ==
  \A t \in TaskIds :
    tasks[t].done => ~(cur = t /\ rpc = "poll" /\ fault = "resumed_after_completion")

\* C2: the run loop receives the Task references in exactly the order in
\* which they were sent: what was sent is what was received followed by what
\* is still queued; and a Task is received for the first time only after
\* every Task spawned before it has been received.
C2_FifoDelivery ==
  /\ sent = recvd \o queue
  /\ \A i \in 1..Len(recvd) :
       \A a \in 1..(recvd[i] - 1) : \E j \in 1..(i - 1) : recvd[j] = a

\* C2 witness: two Tasks spawned in order were received in that order while
\* a later reference is still queued.
C2_Witness ==
  /\ Len(recvd) >= 2
  /\ recvd[1] = 1
  /\ recvd[2] = 2
  /\ queue # <<>>

\* C3 (as claimed): when the timer thread of a Delay that suspended its
\* Task T fires, exactly one reference, to T, is appended to the channel.
C3_WakeRightTask ==
  [][\A k \in DelayIds :
       (/\ delays[k].pending
        /\ tasks[delays[k].owner].dcur = k
        /\ delays[k].tpc = "wake"
        /\ delays'[k].tpc # "wake")
       => queue' = Append(queue, delays[k].owner)]_vars

\* A state C3 is about: with several Tasks alive, the Delay of a suspended Task has
\* fired and that Task is at the tail of the channel.
C3_Witness ==
  \E k \in DelayIds :
    /\ delays[k].pending
    /\ delays[k].fires = 1
    /\ tasks[delays[k].owner].dcur = k
    /\ rpc = "recv"
    /\ nTasks >= 2
    /\ queue # <<>>
    /\ queue[Len(queue)] = delays[k].owner

\* C4 (as claimed, and granting it the runs in which the main thread
\* panics): for every Delay whose poll returned Pending, the timer thread
\* eventually fires exactly one wake, never more than one, and fires it on
\* the waker most recently stored by poll.
C4_ExactlyOneWake ==
  /\ [](\A k \in DelayIds :
         /\ delays[k].fires <= 1
         /\ (delays[k].fires = 1 => delays[k].firedTo = delays[k].lastCx))
  /\ \A k \in DelayIds :
       (delays[k].pending ~> (delays[k].fires = 1 \/ fault # "none"))

\* C4 (amended): at most one wake is ever fired per Delay, on the waker most
\* recently stored by poll; and it is eventually fired for a Delay whose
\* poll returned Pending unless the process ends first.
C4_OneWakeWhileAlive ==
  /\ [](\A k \in DelayIds :
         /\ delays[k].fires <= 1
         /\ (delays[k].fires = 1 => delays[k].firedTo = delays[k].lastCx))
  /\ \A k \in DelayIds : (delays[k].pending ~> (delays[k].fires = 1 \/ ~Alive))

\* C4 witness: a Delay returned Pending and its timer thread has fired its
\* one wake, on the Task that polled it.
C4_Witness ==
  \E k \in DelayIds :
    /\ delays[k].pending
    /\ delays[k].fires = 1
    /\ delays[k].tpc = "done"
    /\ delays[k].firedTo = delays[k].owner

\* C5: a poll of a Delay whose check is made before the deadline returns
\* Pending (the Task stays suspended on it and the run loop goes back to
\* recv), one whose check is made at or after the deadline returns Ready
\* (the future goes on past the await), however often it was polled before;
\* and the timer thread is started by the first poll whatever it returns.
C5_DeadlineMonotonic ==
  /\ [](\A k \in DelayIds : delays[k].npolls >= 1 => delays[k].tpc # "none")
  /\ [][(rpc = "dcheck" /\ rpc' # "dcheck") =>
          LET t == cur
              k == tasks[cur].dcur
          IN IF now >= delays[k].when
               THEN /\ tasks'[t].dcur = 0
                    /\ tasks'[t].pc = tasks[t].pc + 1
               ELSE /\ tasks'[t] = tasks[t]
                    /\ cur' = 0
                    /\ rpc' = "recv"]_vars

\* C5 witness: a Delay answered Ready for a first poll made exactly at its
\* deadline, with its timer thread started; and another Delay has
\* answered Pending twice.
C5_Witness ==
  /\ \E k \in DelayIds :
       /\ delays[k].firstRes = "ready"
       /\ delays[k].npolls = 1
       /\ delays[k].tpc # "none"
  /\ \E k \in DelayIds :
       /\ delays[k].npolls >= 2
       /\ delays[k].pending
       /\ tasks[delays[k].owner].dcur = k

\* Task t still has a Delay whose deadline has not elapsed: the one it is
\* suspended on, or one it has yet to create.
Unelapsed(t) ==
  \E i \in 1..Len(Body(tasks[t].prog)) :
    /\ i >= tasks[t].pc
    /\ Body(tasks[t].prog)[i].op = "delay"
    /\ \/ i > tasks[t].pc
       \/ tasks[t].dcur = 0
       \/ now < delays[tasks[t].dcur].when

\* The step in which the future being polled calls spawn.
NestedSpawnStep ==
  /\ rpc = "exec"
  /\ CurStmt.op = "spawn"
  /\ tasks'[cur].pc # tasks[cur].pc

\* C6 (as claimed, and granting it the runs in which the main thread
\* panics): a Task spawned by a future the run loop is polling is put on
\* the channel and eventually runs to completion, unless the process exits
\* before a deadline of the new Task has elapsed.
C6_NestedSpawnCompletes ==
  /\ [][NestedSpawnStep => queue' = Append(queue, nTasks + 1)]_vars
  /\ \A t \in TaskIds :
       (tasks[t].nested ~>
          (tasks[t].done \/ (exited /\ Unelapsed(t)) \/ fault # "none"))

\* C6 (amended): a Task spawned by a future the run loop is polling is
\* appended to the executor's channel by that very step, and eventually
\* runs to completion unless the process ends first.
C6_NestedSpawnWhileAlive ==
  /\ [][NestedSpawnStep =>
          /\ queue' = Append(queue, nTasks + 1)
          /\ tasks'[nTasks + 1].prog = CurStmt.prog]_vars
  /\ \A t \in TaskIds : (tasks[t].nested ~> (tasks[t].done \/ ~Alive))

\* C6 witness: both Tasks spawned by the root future have run to
\* completion.
C6_Witness ==
  /\ nTasks = 3
  /\ tasks[2].nested /\ tasks[2].done
  /\ tasks[3].nested /\ tasks[3].done

\* "hello" is printed strictly before "world", and at process exit both
\* have been printed.
HelloThenWorld ==
  /\ \A i \in 1..Len(out) :
       out[i] = "world" => \E j \in 1..(i - 1) : out[j] = "hello"
  /\ exited => {"hello", "world"} \subseteq Range(out)

\* C7 (as claimed): in every execution of main, "hello" is printed
\* strictly before "world" and both are printed before the process exits.
C7_HelloBeforeWorld == script = ScriptA => HelloThenWorld

\* C7 (amended): the same, for the executions of main in which the clock
\* never advances while a thread is able to step (polls and timer wake-ups
\* take no noticeable part of the 100 ms between the deadlines).
C7_HelloBeforeWorldPrompt == (script = ScriptA /\ ~slow) => HelloThenWorld

\* C7 witness: such an execution of main has exited after 200 ms with
\* "hello" then "world" printed.
C7_Witness ==
  /\ script = ScriptA
  /\ ~slow
  /\ exited
  /\ now = D200
  /\ out = <<"hello", "world">>

\* The main thread is at a call of the free function spawn.
AtGlobalSpawn == mpc \in 1..Len(script) /\ script[mpc].op = "gspawn"

\* C8: a call of spawn while CURRENT holds None panics and changes nothing
\* else: no Task is created, nothing is sent, and the caller does not get
\* past the call.  (The only other step possible then is the clock's.)
C8_SpawnWithoutExecutorPanics ==
  [][(AtGlobalSpawn /\ current = "None") =>
       /\ UNCHANGED <<queue, sent, nTasks, tasks, mpc, current>>
       /\ \/ fault' = "unwrap_none"
          \/ now' = now + 1 /\ fault' = fault]_vars

\* C8 witness: the main thread has panicked in spawn; the channel still
\* holds what the method spawn before it had sent.
C8_Witness ==
  /\ AtGlobalSpawn
  /\ fault = "unwrap_none"
  /\ queue = <<1>>
  /\ nTasks = 1

\* C9 (as claimed): from create() on, CURRENT holds the executor's sender,
\* before run starts as well as while it runs.
C9_SlotSetFromCreate == mpc >= 1 => current = "sender"

\* C9 (amended): CURRENT holds the executor's sender from the start of
\* run() on and not before: it is None between create() and run(), where a
\* call of spawn panics, and it holds the sender while any future is polled,
\* where a call of spawn has never panicked.
C9_SlotSetByRun ==
  /\ current = "sender" <=> InLoop
  /\ cur # 0 => current = "sender"
  /\ fault = "unwrap_none" => (~InLoop /\ AtGlobalSpawn)

\* C9 witness: under run(), a polled future has spawned through CURRENT.
C9_Witness ==
  /\ InLoop
  /\ current = "sender"
  /\ \E t \in TaskIds : tasks[t].nested

\* Scenario C: both Tasks have polled their Delay and the deadlines are the
\* same.
SameDeadline ==
  /\ script = ScriptC
  /\ nDelays = 2
  /\ delays[1].npolls >= 1 /\ delays[2].npolls >= 1
  /\ delays[1].owner # delays[2].owner
  /\ delays[1].when = delays[2].when

\* C10 (as claimed): with two Delays of the same deadline polled by two
\* Tasks, each timer thread wakes its own Task only, a step that completes
\* one Task leaves the other Task and its Delay as they were, and both
\* Tasks complete.
C10_IndependentDelays ==
  /\ [](\A k \in DelayIds :
         (script = ScriptC /\ delays[k].fires >= 1)
           => (delays[k].fires = 1 /\ delays[k].firedTo = delays[k].owner))
  /\ [][\A t \in {1, 2} :
         (script = ScriptC /\ ~tasks[t].done /\ tasks'[t].done)
           => \A u \in {1, 2} \ {t} :
                /\ tasks'[u] = tasks[u]
                /\ \A k \in DelayIds :
                     delays[k].owner = u => delays'[k] = delays[k]]_vars
  /\ (SameDeadline ~> (tasks[1].done /\ tasks[2].done))

\* C11: a spawn, by the method or by the free function, appends exactly one
\* reference, to the new Task, at the tail of the channel, and does nothing
\* else: the new Task is not polled, no other Task changes (the spawning
\* future itself only moves past the call), nothing is received, printed or
\* locked and no Delay changes.
C11_SpawnOnlyEnqueues ==
  [][nTasks' # nTasks =>
       /\ nTasks' = nTasks + 1
       /\ queue' = Append(queue, nTasks')
       /\ tasks'[nTasks'].pc = 1 /\ ~tasks'[nTasks'].done
       /\ \A t \in 1..nTasks :
            IF t = cur
              THEN tasks'[t] = [tasks[t] EXCEPT !.pc = tasks[t].pc + 1]
              ELSE tasks'[t] = tasks[t]
       /\ UNCHANGED <<recvd, out, delays, flock, cur, current>>]_vars

\* C11 witness: a spawn made inside a polled future has appended its Task
\* behind an entry that was already queued.
C11_Witness ==
  /\ cur = 1
  /\ nTasks = 3
  /\ queue = <<2, 3>>
  /\ ~tasks[3].done

\* C12: run() never returns.  With the channel empty the loop stays blocked
\* in recv(), polling nothing, until an entry arrives; the channel is never
\* closed, so recv() never fails and line 43 is never passed.
C12_RunNeverReturns ==
  /\ [](~Returned)
  /\ [][(InLoop /\ rpc = "recv" /\ queue = <<>>)
         => UNCHANGED <<mpc, rpc, cur, recvd, tasks>>]_vars

\* C12 witness: every Task spawned has completed, every timer thread has
\* ended and the channel is empty; run() is still inside recv().
C12_Witness ==
  /\ Alive
  /\ InLoop
  /\ rpc = "recv"
  /\ queue = <<>>
  /\ nTasks >= 1
  /\ \A t \in 1..nTasks : tasks[t].done
  /\ \A k \in DelayIds : delays[k].tpc \in {"none", "done"}

\* C13: at most one poll is in progress on a Task's future at any time, and
\* only the run loop makes it; the try_lock of line 246 therefore never
\* finds the Mutex held and its unwrap never panics.
C13_SingleAdvance ==
  /\ fault # "try_lock"
  /\ flock \subseteq {cur}
  /\ rpc = "poll" /\ fault = "none" => cur \notin flock

\* C13 witness: a Task that was suspended once by its Delay is being polled
\* for the second time, holding the lock of its future, while a Task spawned
\* by a polled future has been sent back to the channel by its timer thread.
C13_Witness ==
  /\ cur # 0
  /\ flock = {cur}
  /\ rpc = "dwaker"
  /\ delays[tasks[cur].dcur].npolls >= 1
  /\ \E t \in Range(queue) : tasks[t].nested

\* C14: for every Delay the number of timer threads ever spawned is 0 until
\* its first poll and exactly 1 from the first poll on, however often it is
\* polled again.
C14_OneWaiterPerDelay ==
  \A k \in DelayIds :
    /\ delays[k].started <= 1
    /\ delays[k].lastCx = 0 => delays[k].started = 0
    /\ delays[k].lastCx # 0 => delays[k].started = 1
    /\ delays[k].started = 0 <=> delays[k].tpc = "none"

\* C14 witness: a Delay polled for the third time, the extra poll caused by
\* a wake, has one timer thread.
C14_Witness ==
  \E k \in DelayIds :
    /\ delays[k].npolls >= 2
    /\ rpc = "dcheck"
    /\ cur # 0
    /\ tasks[cur].dcur = k
    /\ delays[k].started = 1

\* C15: a poll of a Delay whose slot holds a waker leaves in the slot the
\* waker of the polling Task: the stored one is kept when it already wakes
\* that Task and replaced when it wakes another; the waker the timer thread
\* fires is the one of the most recent poll, never the one of an earlier
\* poll by another Task.
C15_MostRecentCallerHonoured ==
  /\ [][\A k \in DelayIds :
          (rpc = "dwaker" /\ rpc' = "dcheck" /\ tasks[cur].dcur = k)
          => /\ delays'[k].waker = cur
             /\ will_wake(delays[k].waker, cur)
                  => delays'[k].waker = delays[k].waker]_vars
  /\ [](\A k \in DelayIds :
          delays[k].tpc = "wake" => delays[k].waker = delays[k].lastCx)
  /\ [][\A k \in DelayIds :
          (delays[k].tpc = "wake" /\ delays'[k].tpc # "wake")
          => queue' = wake_by_ref(queue, delays[k].lastCx)]_vars

\* C15 witness: the Delay was polled first by Task 1, then, before its timer
\* thread fired, by Task 2; the timer thread has sent Task 2 to the channel.
C15_Witness ==
  /\ Len(recvd) >= 2
  /\ recvd[1] = 1
  /\ delays[1].npolls >= 2
  /\ delays[1].fires = 1
  /\ delays[1].firedTo = 2
  /\ queue # <<>>
  /\ queue[Len(queue)] = 2

\* C16: the run loop and the timer threads never block each other for good.
\* The slot's lock is held only by a timer thread that is about to send,
\* which takes no other lock and never blocks on the unbounded channel; a
\* poll that waits for the slot's lock (line 149) gets it, and a timer
\* thread whose sleep is over gets it (line 171) unless the process ends.
C16_NoGuardDeadlock ==
  /\ [](\A k \in DelayIds : delays[k].lock => delays[k].tpc = "wake")
  /\ \A k \in DelayIds :
       (rpc = "dwaker" /\ cur # 0 /\ tasks[cur].dcur = k /\ delays[k].lock)
         ~> (rpc = "dcheck" /\ tasks[cur].dcur = k /\ ~delays[k].lock)
  /\ \A k \in DelayIds :
       (delays[k].tpc = "sleep" /\ TimerElapsed(k))
         ~> (delays[k].tpc = "wake" \/ ~ThreadsRun)

\* C16 witness: the run loop, holding the lock of a Task's future, is in a
\* poll of the Task's Delay (line 149) while the Delay's timer thread holds
\* the lock of the slot.
C16_Witness ==
  /\ rpc = "dwaker"
  /\ cur \in flock
  /\ SlotPresent(tasks[cur].dcur)
  /\ delays[tasks[cur].dcur].lock

\* C17 (as claimed): a poll made for an extra entry of the channel is
\* harmless: Task::poll never panics, whether the Task is still suspended or
\* has completed, and no future is taken back to a statement it has run.
C17_DuplicatesHarmless ==
  /\ [][rpc = "poll" => fault' = "none"]_vars
  /\ [][\A t \in TaskIds :
          /\ tasks'[t].pc >= tasks[t].pc
          /\ tasks[t].done => tasks'[t].done]_vars

\* C18: Task::poll sends nothing.  When it returns, Ready or Pending, the
\* channel holds what it held, but for a Task the future spawned in its
\* last statement; the channel grows only in a spawn (by the new Task) and
\* in the wake of a timer thread (by the Task of the stored waker).
C18_PollNeverRequeues ==
  /\ [][(cur # 0 /\ cur' = 0)
         => \/ queue' = queue
            \/ nTasks' = nTasks + 1 /\ queue' = Append(queue, nTasks')]_vars
  /\ [][Len(queue') > Len(queue)
         => \/ nTasks' = nTasks + 1 /\ queue' = Append(queue, nTasks')
            \/ \E k \in DelayIds :
                 /\ delays[k].tpc = "wake"
                 /\ delays'[k].tpc # "wake"
                 /\ queue' = Append(queue, delays[k].waker)]_vars

\* C18 witness: one poll has returned Ready and one Pending; neither Task is
\* in the channel, and the timer thread of the suspended one has not fired.
C18_Witness ==
  /\ rpc = "recv"
  /\ \E t \in 1..nTasks : tasks[t].done /\ t \notin Range(queue)
  /\ \E t \in 1..nTasks :
       /\ tasks[t].dcur # 0
       /\ delays[tasks[t].dcur].pending
       /\ delays[tasks[t].dcur].fires = 0
       /\ t \notin Range(queue)

\* C19 (as claimed): whenever a send is performed, by a spawn or by the
\* wake of a timer thread, the Receiver is alive; the send succeeds and the
\* reference is in the channel.
C19_SendsNeverFail ==
  /\ [][nTasks' # nTasks
         => ReceiverAlive /\ queue' = Append(queue, nTasks')]_vars
  /\ [][\A k \in DelayIds :
          (delays[k].tpc = "wake" /\ delays'[k].tpc # "wake")
          => ReceiverAlive /\ Len(queue') = Len(queue) + 1]_vars

\* C20: a timer thread fires no earlier than the deadline of its Delay, and
\* a poll of the Delay made after its timer thread fired returns Ready: the
\* Delay no longer suspends the Task.
C20_NoEarlyWake ==
  /\ [](\A k \in DelayIds :
          delays[k].tpc \in {"wake", "done"} => now >= delays[k].when)
  /\ [][\A k \in DelayIds :
          (/\ rpc = "dcheck"
           /\ tasks[cur].dcur = k
           /\ delays[k].fires >= 1
           /\ delays'[k].npolls = delays[k].npolls + 1)
          => /\ tasks'[delays[k].lastCx].dcur = 0
             /\ delays'[k].pending = delays[k].pending]_vars

\* C20 witness: a Delay suspended its Task, its timer thread fired, and the
\* poll made for that wake found it Ready.
C20_Witness ==
  \E k \in DelayIds :
    /\ delays[k].pending
    /\ delays[k].fires = 1
    /\ delays[k].npolls = 2
    /\ tasks[delays[k].owner].dcur = 0
    /\ fault = "none"

=============================================================================
